---- MODULE Spec2Model ----
(***************************************************************************)
(* Model of the name-resolution and caching layer of ecs-mcp               *)
(* (src/ecs_mcp/client.py, class ECSClient):                               *)
(*   get_all_clusters_and_services  - the topology snapshot cache (TTL)    *)
(*   find_matching_names            - the name resolver + resolution cache *)
(*   find_best_match_basic          - the deterministic heuristic matcher  *)
(*   call_llm                       - the semantic matcher adapter         *)
(*                                                                         *)
(* Python strings are sequences of one-character strings, so that lower(), *)
(* `in`, len() and f-string concatenation are computed, not assumed.       *)
(* Python values that may be None / str / list carry a tag.                *)
(***************************************************************************)
EXTENDS Integers, Sequences, FiniteSets, TLC

VARIABLES
    name_matching_cache,      \* ECSClient._name_matching_cache : key -> response
    clusters_services_cache,  \* ECSClient._clusters_services_cache : data, timestamp
    now,                      \* datetime.now(timezone.utc), in seconds
    last,                     \* what the last find_matching_names call did and returned
    inputs,                   \* the scenario: the inputs the environment draws from
    bm,                       \* harness of find_best_match_basic: inputs and output
    tool,                     \* what the last query tool of ECSMCPServer did and returned
    tasks,                    \* the find_matching_names coroutines in flight
    refreshes,                \* history: the topology refreshes that completed
    cli,                      \* cli.main(): its command line, environment and outcome
    health,                   \* check_ecs_service_status: the service it saw, what it did
    walk                      \* one find_matching_names call followed upstream call by upstream call

vars == <<name_matching_cache, clusters_services_cache, now, last, inputs, bm,
          tool, tasks, refreshes, cli, health, walk>>

----------------------------------------------------------------------------
(* Python values *)

PyNone == [t |-> "none", v |-> <<>>]
PyStr(s) == [t |-> "str", v |-> s]
PyList(l) == [t |-> "list", v |-> l]
\* a key that is missing from a dict (dict.get gives None for it)
PyAbsent == [t |-> "absent", v |-> <<>>]

\* Python truthiness of None / str / list: None, "" and [] are falsy
Truthy(x) == x.t \in {"str", "list"} /\ x.v # <<>>

IsNull(x) == x.t \in {"none", "absent"}

\* str.lower() on one character
LowerChar(c) ==
    CASE c = "A" -> "a"
      [] c = "B" -> "b"
      [] c = "N" -> "n"
      [] OTHER -> c

\* str.lower()
Lower(s) == [i \in 1..Len(s) |-> LowerChar(s[i])]

\* Python `x in y` on two strings
IsSubstr(x, y) ==
    \E i \in 0..(Len(y) - Len(x)) : SubSeq(y, i + 1, i + Len(x)) = x

\* Python `item in list`
InList(item, l) == \E i \in 1..Len(l) : l[i] = item

----------------------------------------------------------------------------
(* find_best_match_basic, client.py 416-440 *)

\* insert x into a sequence sorted by length, after every element that is
\* not longer (list.sort is stable)
RECURSIVE InsertByLen(_, _)
InsertByLen(x, sorted) ==
    IF sorted = <<>> THEN <<x>>
    ELSE IF Len(x) < Len(Head(sorted)) THEN <<x>> \o sorted
    ELSE <<Head(sorted)>> \o InsertByLen(x, Tail(sorted))

\* partial_matches.sort(key=len)
RECURSIVE SortByLen(_)
SortByLen(l) ==
    IF l = <<>> THEN <<>>
    ELSE InsertByLen(l[Len(l)], SortByLen(SubSeq(l, 1, Len(l) - 1)))

\* the loop `for candidate in candidates: if candidate.lower() == target`
RECURSIVE ExactMatch(_, _)
ExactMatch(target, candidates) ==
    IF candidates = <<>> THEN PyNone
    ELSE IF Lower(Head(candidates)) = target THEN PyStr(Head(candidates))
    ELSE ExactMatch(target, Tail(candidates))

\* a matcher that only looks for the target inside the candidate
IsPartial_oneway(target, c) == IsSubstr(target, Lower(c))

\* [c for c in candidates if target in c.lower() or c.lower() in target]
IsPartial(target, c) == IsSubstr(target, Lower(c)) \/ IsSubstr(Lower(c), target)

PartialMatches(target, candidates) ==
    SelectSeq(candidates, LAMBDA c : IsPartial(target, c))

\* lines 424-440, given the exact match and the partial matches
PickMatch(exact, partial_matches) ==
    IF exact # PyNone THEN exact
    ELSE IF partial_matches # <<>> THEN PyStr(SortByLen(partial_matches)[1])
    ELSE PyNone

find_best_match_basic(target, candidates) ==
    IF ~Truthy(target) \/ candidates = <<>> THEN PyNone
    ELSE PickMatch(ExactMatch(Lower(target.v), candidates),
                   PartialMatches(Lower(target.v), candidates))

\* The list objects the body works on: the caller's candidates list and the
\* list partial_matches built by the comprehension of lines 430-433.
MatcherObjects(candidates, partial_matches) ==
    [candidates |-> candidates, partial_matches |-> partial_matches]

\* a sort that is applied to the caller's list as well
SortInPlace_candidates(objs) ==
    [candidates |-> SortByLen(objs.candidates),
     partial_matches |-> SortByLen(objs.partial_matches)]

\* partial_matches.sort(key=len) (437) reorders the list it is called on
SortInPlace(objs) ==
    [objs EXCEPT !.partial_matches = SortByLen(objs.partial_matches)]

\* the caller's candidates list when find_best_match_basic has returned
CandidatesAfter(target, candidates) ==
    IF ~Truthy(target) \/ candidates = <<>> THEN candidates
    ELSE IF ExactMatch(Lower(target.v), candidates) # PyNone THEN candidates
    ELSE IF PartialMatches(Lower(target.v), candidates) = <<>> THEN candidates
    ELSE SortInPlace(MatcherObjects(candidates,
                                    PartialMatches(Lower(target.v), candidates))).candidates

----------------------------------------------------------------------------
(* Harness of the pure function find_best_match_basic *)

MaxStrLen == 2
MaxCands == 2

Alphabet == {"a", "A", "b"}

RECURSIVE StringsUpTo(_)
StringsUpTo(n) ==
    IF n = 0 THEN {<<>>}
    ELSE LET shorter == StringsUpTo(n - 1)
         IN  shorter \cup {Append(s, c) : s \in shorter, c \in Alphabet}

BMStrings == StringsUpTo(MaxStrLen)

RECURSIVE ListsUpTo(_)
ListsUpTo(n) ==
    IF n = 0 THEN {<<>>}
    ELSE LET shorter == ListsUpTo(n - 1)
         IN  shorter \cup {Append(l, s) : l \in shorter, s \in BMStrings}

BMTargets == {PyNone} \cup {PyStr(s) : s \in BMStrings}

BMIdle == [target |-> PyNone, candidates |-> <<>>, result |-> PyNone, done |-> FALSE]

----------------------------------------------------------------------------
(* The Infrastructure Gateway (boto3 ECS client) as the resolver sees it *)

\* arn.split('/')[-1] : the characters after the last '/'
RECURSIVE LastSegment(_)
LastSegment(arn) ==
    IF arn = <<>> THEN <<>>
    ELSE IF arn[Len(arn)] = "/" THEN <<>>
    ELSE Append(LastSegment(SubSeq(arn, 1, Len(arn) - 1)), arn[Len(arn)])

\* short names
n_a == <<"a">>
n_b == <<"b">>
n_c == <<"c">>
n_ab == <<"a", "b">>
n_z == <<"z">>

ClusterArn(region, name) == <<region, "/">> \o name
ServiceArn(cluster, name) == <<"s", "/">> \o cluster \o <<"/">> \o name

\* What the gateway lists: the cluster ARNs of list_clusters and, per cluster
\* name, the pages of list_services (every page but the last carries a nextToken).
\* Listing1: two clusters, one of them paged, and a service named like a cluster.
Listing1 ==
    [clusterArns |-> <<ClusterArn("r", n_ab), ClusterArn("r", n_b)>>,
     pages |-> (n_ab :> << <<ServiceArn(n_ab, n_a)>>, <<ServiceArn(n_ab, n_b)>> >>)
            @@ (n_b :> << <<ServiceArn(n_b, n_c)>> >>)]

\* Listing2: two cluster ARNs that share one short name.
Listing2 ==
    [clusterArns |-> <<ClusterArn("r", n_ab), ClusterArn("q", n_ab)>>,
     pages |-> (n_ab :> << <<ServiceArn(n_ab, n_a)>> >>)]

Listings == {Listing1, Listing2}

\* ecs_client.list_services(cluster=..., nextToken=...): token 0 is "no token"
list_services(listing, cluster_name, next_token) ==
    LET idx == IF next_token = 0 THEN 1 ELSE next_token
        ps == listing.pages[cluster_name]
    IN  [serviceArns |-> ps[idx],
         nextToken |-> IF idx < Len(ps) THEN idx + 1 ELSE 0]

\* number of gateway calls of one complete refresh of a listing
RECURSIVE SumPages(_, _)
SumPages(listing, names) ==
    IF names = <<>> THEN 0
    ELSE Len(listing.pages[LastSegment(Head(names))]) + SumPages(listing, Tail(names))

NumCalls(listing) == 1 + SumPages(listing, listing.clusterArns)

----------------------------------------------------------------------------
(* get_all_clusters_and_services, client.py 201-267 *)

cache_ttl == 300

NoTime == -1

NoData == [isNone |-> TRUE, clusters |-> <<>>, total_clusters |-> 0, total_services |-> 0]

\* an insertion-ordered dict as a sequence of <<key, value>> entries
DictHas(d, k) == \E i \in 1..Len(d) : d[i][1] = k

DictGet(d, k) == d[CHOOSE i \in 1..Len(d) : d[i][1] = k][2]

DictSet(d, k, val) ==
    IF DictHas(d, k)
    THEN [i \in 1..Len(d) |-> IF d[i][1] = k THEN <<k, val>> ELSE d[i]]
    ELSE Append(d, <<k, val>>)

DictKeys(d) == [i \in 1..Len(d) |-> d[i][1]]

\* [arn.split('/')[-1] for arn in arns]
ShortNames(arns) == [i \in 1..Len(arns) |-> LastSegment(arns[i])]

\* a page loop that ignores the continuation token
PageLoop_first(listing, cluster_name, next_token, service_arns, ncalls, failAt) ==
    IF ncalls + 1 = failAt
    THEN [ok |-> FALSE, service_arns |-> service_arns, ncalls |-> ncalls + 1]
    ELSE [ok |-> TRUE,
          service_arns |-> service_arns
                           \o list_services(listing, cluster_name, next_token).serviceArns,
          ncalls |-> ncalls + 1]

\* the `while True` loop over the pages of one cluster (225-235);
\* gateway call number failAt raises
RECURSIVE PageLoop(_, _, _, _, _, _)
PageLoop(listing, cluster_name, next_token, service_arns, ncalls, failAt) ==
    IF ncalls + 1 = failAt
    THEN [ok |-> FALSE, service_arns |-> service_arns, ncalls |-> ncalls + 1]
    ELSE LET services_response == list_services(listing, cluster_name, next_token)
             acc == service_arns \o services_response.serviceArns
         IN  IF services_response.nextToken = 0
             THEN [ok |-> TRUE, service_arns |-> acc, ncalls |-> ncalls + 1]
             ELSE PageLoop(listing, cluster_name, services_response.nextToken,
                           acc, ncalls + 1, failAt)

\* the `for cluster_name in cluster_names` loop (221-238)
RECURSIVE ClusterLoop(_, _, _, _, _)
ClusterLoop(listing, cluster_names, cluster_services, ncalls, failAt) ==
    IF cluster_names = <<>>
    THEN [ok |-> TRUE, cluster_services |-> cluster_services, ncalls |-> ncalls]
    ELSE LET cluster_name == Head(cluster_names)
             p == PageLoop(listing, cluster_name, 0, <<>>, ncalls, failAt)
         IN  IF ~p.ok
             THEN [ok |-> FALSE, cluster_services |-> cluster_services, ncalls |-> p.ncalls]
             ELSE ClusterLoop(listing, Tail(cluster_names),
                              DictSet(cluster_services, cluster_name,
                                      ShortNames(p.service_arns)),
                              p.ncalls, failAt)

RECURSIVE SumLen(_)
SumLen(d) == IF d = <<>> THEN 0 ELSE Len(Head(d)[2]) + SumLen(Tail(d))

\* formatted_response (243-254)
FormatResponse(cluster_names, cluster_services) ==
    [isNone |-> FALSE,
     clusters |-> [i \in 1..Len(cluster_services) |->
                     [name |-> cluster_services[i][1],
                      services |-> cluster_services[i][2],
                      service_count |-> Len(cluster_services[i][2])]],
     total_clusters |-> Len(cluster_names),
     total_services |-> SumLen(cluster_services)]

\* a cache that is still trusted at the age of the TTL
CacheIsFresh_inclusive(cache, current_time) ==
    /\ ~cache.data.isNone
    /\ cache.timestamp # NoTime
    /\ current_time - cache.timestamp <= cache_ttl

\* a cache that is never trusted
CacheIsFresh_never(cache, current_time) == FALSE

\* the cached-data test of lines 205-207
CacheIsFresh(cache, current_time) ==
    /\ ~cache.data.isNone
    /\ cache.timestamp # NoTime
    /\ current_time - cache.timestamp < cache_ttl

\* a refresh that stores the snapshot without its capture time
StoreSnapshot_untimed(current_time, formatted_response, ncalls) ==
    [error |-> FALSE, data |-> formatted_response,
     cache |-> [data |-> formatted_response, timestamp |-> NoTime],
     lc_calls |-> 1, ls_calls |-> ncalls - 1]

\* lines 242-260: format, update the cache, return
StoreSnapshot(current_time, formatted_response, ncalls) ==
    [error |-> FALSE, data |-> formatted_response,
     cache |-> [data |-> formatted_response, timestamp |-> current_time],
     lc_calls |-> 1, ls_calls |-> ncalls - 1]

\* an except branch that drops the snapshot it had
RefreshFailed_cleared(cache, ncalls) ==
    [error |-> TRUE, data |-> NoData,
     cache |-> [data |-> NoData, timestamp |-> NoTime],
     lc_calls |-> 1, ls_calls |-> ncalls - 1]

\* lines 262-267: the error dict; the cache is not touched
RefreshFailed(cache, ncalls) ==
    [error |-> TRUE, data |-> NoData, cache |-> cache,
     lc_calls |-> 1, ls_calls |-> ncalls - 1]

\* what follows the loop over the clusters
AfterClusterLoop(cache, current_time, cluster_names, r) ==
    IF ~r.ok THEN RefreshFailed(cache, r.ncalls)
    ELSE StoreSnapshot(current_time, FormatResponse(cluster_names, r.cluster_services),
                       r.ncalls)

\* lines 211-260 once list_clusters has answered
Refresh(cache, current_time, listing, cluster_names, failAt) ==
    AfterClusterLoop(cache, current_time, cluster_names,
                     ClusterLoop(listing, cluster_names, <<>>, 1, failAt))

\* returns the value returned (data, or error = TRUE for the error dict), the
\* cache after the call and the gateway calls issued
get_all_clusters_and_services(cache, current_time, listing, failAt) ==
    IF CacheIsFresh(cache, current_time)
    THEN [error |-> FALSE, data |-> cache.data, cache |-> cache,
          lc_calls |-> 0, ls_calls |-> 0]
    ELSE IF failAt = 1 THEN RefreshFailed(cache, 1)
    ELSE Refresh(cache, current_time, listing, ShortNames(listing.clusterArns), failAt)

----------------------------------------------------------------------------
(* call_llm, client.py 442-489 *)

\* What litellm.completion does on one request: it raises, or it returns a
\* message whose content is not JSON ("bad"), is JSON but not an object
\* ("nonobj", e.g. a list), or is a JSON object with the two names ("obj").
Completion(kind, c, s) == [kind |-> kind, cluster_name |-> c, service_name |-> s]

NullResult == Completion("obj", PyNone, PyNone)

\* names the matcher may answer: in the topology, of another cluster, unknown
MatchClusters == {PyNone, PyStr(n_ab), PyStr(n_z)}
MatchServices == {PyNone, PyStr(n_a), PyStr(n_b), PyStr(n_c)}

CompletionOutcomes ==
    {Completion(k, PyNone, PyNone) : k \in {"raise", "bad", "nonobj"}}
    \cup {Completion("obj", c, s) : c \in MatchClusters, s \in MatchServices}

\* the narrower second request asks for a service_name only
SecondOutcomes ==
    {Completion(k, PyNone, PyNone) : k \in {"raise", "bad", "nonobj"}}
    \cup {Completion("obj", PyNone, s) : s \in {PyNone, PyStr(n_a), PyStr(n_z)}}

\* an adapter that lets the failure of the completion through
call_llm_propagating(outcome) == outcome

\* the text call_llm returns for a completion outcome: the content when
\* json.loads accepts it, else json.dumps of the two nulls (474-489)
call_llm(outcome) ==
    IF outcome.kind = "raise" THEN NullResult
    ELSE IF outcome.kind = "bad" THEN NullResult
    ELSE outcome

\* A matcher request as find_matching_names issues it: through call_llm, or
\* through a replacement of the method (tests/test_client.py 95-99 patch
\* ECSClient.call_llm), which may raise or return something json.loads rejects.
LlmReal(outcome) == [patched |-> FALSE, out |-> outcome]
LlmPatched(kind) == [patched |-> TRUE, out |-> Completion(kind, PyNone, PyNone)]

NoLlm == [patched |-> FALSE, out |-> Completion("none", PyNone, PyNone)]

LlmFirst == {LlmReal(o) : o \in CompletionOutcomes} \cup {LlmPatched(k) : k \in {"raise", "bad"}}
LlmSecond == {LlmReal(o) : o \in SecondOutcomes} \cup {LlmPatched(k) : k \in {"raise", "bad"}}

\* `await self.call_llm(prompt)` : the reply the resolver gets
AwaitCallLlm(llm) == IF llm.patched THEN llm.out ELSE call_llm(llm.out)

\* does `json.loads(reply)` followed by `.get(...)` raise?
ReplyRaises(reply) == reply.kind # "obj"

----------------------------------------------------------------------------
(* find_matching_names, client.py 269-414 *)

NoneText == <<"N", "o", "n", "e">>

\* how an f-string renders a None or a str
Fmt(x) == IF x.t = "str" THEN x.v ELSE NoneText

\* cache_key = f"{cluster_name}:{service_name}" (275)
CacheKey(cluster_name, service_name) == Fmt(cluster_name) \o <<":">> \o Fmt(service_name)

Response(status, c, s) ==
    [status |-> status, cluster_name |-> c, service_name |-> s, detail |-> "none"]

\* the error dict of get_all_clusters_and_services (264-267) and of the outer
\* except (411-414): neither has a cluster_name or service_name key
ErrorResult(detail) ==
    [status |-> "error", cluster_name |-> PyAbsent, service_name |-> PyAbsent,
     detail |-> detail]

\* cluster_service_map (303-306): a dict comprehension over the entries
RECURSIVE ClusterServiceMap(_, _)
ClusterServiceMap(clusters, acc) ==
    IF clusters = <<>> THEN acc
    ELSE ClusterServiceMap(Tail(clusters),
                           DictSet(acc, Head(clusters).name, Head(clusters).services))

\* cluster_service_map.get(key) with a None / str key
MapGet(map, key) ==
    IF key.t = "str" /\ DictHas(map, key.v) THEN PyList(DictGet(map, key.v)) ELSE PyNone

\* lines 367-369: the lookup that follows a service match without a cluster match
RepairCluster(map, cluster, service) ==
    IF Truthy(service) /\ ~Truthy(cluster) THEN MapGet(map, service) ELSE cluster

\* a second request that is issued whether or not a service was asked for
NeedsSecond_unasked(cluster, service_query, service) ==
    Truthy(cluster) /\ ~Truthy(service)

\* line 372: is the second, narrower request issued?
NeedsSecond(cluster, service_query, service) ==
    Truthy(cluster) /\ Truthy(service_query) /\ ~Truthy(service)

\* lines 400-405 with the cluster name settled; cluster_service_map[...]
\* raises KeyError for a name that is not a key
FallbackService(map, service_name, response, c) ==
    IF ~Truthy(service_name)
    THEN [raised |-> FALSE, response |-> Response("success", c, response.service_name)]
    ELSE IF Truthy(c) /\ ~(c.t = "str" /\ DictHas(map, c.v))
    THEN [raised |-> TRUE, response |-> ErrorResult("resolver")]
    ELSE [raised |-> FALSE,
          response |-> Response("success", c,
                          find_best_match_basic(service_name,
                              IF Truthy(c) THEN DictGet(map, c.v) ELSE DictKeys(map)))]

\* an except branch that tags the result `fallback`
Fallback_tagged(map, cluster_name, service_name, response) ==
    [raised |-> FALSE,
     response |-> Response("fallback",
                     find_best_match_basic(cluster_name, DictKeys(map)),
                     response.service_name)]

\* an except branch that returns the response untouched
Fallback_noop(map, cluster_name, service_name, response) ==
    [raised |-> FALSE, response |-> response]

\* the except branch, lines 395-405, entered with the response as it is then
Fallback(map, cluster_name, service_name, response) ==
    FallbackService(map, service_name, response,
                    IF Truthy(cluster_name)
                    THEN find_best_match_basic(cluster_name, DictKeys(map))
                    ELSE response.cluster_name)

\* a step of the try block: did it raise, the response so far, the requests made
TryResult(raised, response, llm_calls, scope) ==
    [raised |-> raised, response |-> response, llm_calls |-> llm_calls, scope |-> scope]

\* lines 388-390: the second request, scoped to cluster_services
SecondRequest(c, s, cluster_services, reply2) ==
    IF ReplyRaises(reply2)
    THEN TryResult(TRUE, Response("success", c, s), 2, cluster_services)
    ELSE TryResult(FALSE, Response("success", c, reply2.service_name), 2, cluster_services)

\* cluster_service_map.get(response["cluster_name"], []) (374)
ServicesOfCluster(map, c) == IF c.t = "str" /\ DictHas(map, c.v) THEN DictGet(map, c.v) ELSE <<>>

\* lines 371-390 with the cluster name c after the repair
AfterRepair(map, service_name, c, s, llm2) ==
    IF ~NeedsSecond(c, service_name, s)
    THEN TryResult(FALSE, Response("success", c, s), 1, <<>>)
    ELSE SecondRequest(c, s, ServicesOfCluster(map, c), AwaitCallLlm(llm2))

\* lines 361-390 with the reply to the first request
AfterFirst(map, service_name, reply1, llm2) ==
    IF ReplyRaises(reply1)
    THEN TryResult(TRUE, Response("success", PyNone, PyNone), 1, <<>>)
    ELSE AfterRepair(map, service_name,
                     RepairCluster(map, reply1.cluster_name, reply1.service_name),
                     reply1.service_name, llm2)

\* the try block, lines 357-393
Try(map, service_name, llm1, llm2) ==
    AfterFirst(map, service_name, AwaitCallLlm(llm1), llm2)

\* try / except / return, lines 357-407: the result is stored when the try
\* block ended without raising
AfterTry(map, cluster_name, service_name, t) ==
    IF t.raised
    THEN [response |-> Fallback(map, cluster_name, service_name, t.response).response,
          stored |-> FALSE, llm_calls |-> t.llm_calls, fell_back |-> TRUE,
          fail_req |-> t.llm_calls, scope |-> t.scope]
    ELSE [response |-> t.response, stored |-> TRUE, llm_calls |-> t.llm_calls,
          fell_back |-> FALSE, fail_req |-> 0, scope |-> t.scope]

\* lines 308-407 : the matching step on a topology that was fetched
MatchStep(map, cluster_name, service_name, llm1, llm2) ==
    AfterTry(map, cluster_name, service_name, Try(map, service_name, llm1, llm2))

\* a resolver that keeps the latest result only
CacheStore_latest(cache, cache_key, response) == (cache_key :> response)

\* a resolver that forgets to write the result
CacheStore_skip(cache, cache_key, response) == cache

\* self._name_matching_cache[cache_key] = response (393)
CacheStore(cache, cache_key, response) == (cache_key :> response) @@ cache

\* a resolver that memoizes the error dict as well
OnTopologyError_cached(cache, cache_key) == (cache_key :> ErrorResult("topology")) @@ cache

\* `if "error" in all_info: return all_info` (299-300) writes nothing
OnTopologyError(cache, cache_key) == cache

\* what a call observably did
Obs(hit, lc_calls, ls_calls, topo_error, map, m) ==
    [hit |-> hit, lc_calls |-> lc_calls, ls_calls |-> ls_calls,
     topo_error |-> topo_error, map |-> map, llm_calls |-> m.llm_calls,
     fell_back |-> m.fell_back, fail_req |-> m.fail_req, stored |-> m.stored,
     scope |-> m.scope]

NoMatchStep ==
    [response |-> ErrorResult("none"), stored |-> FALSE, llm_calls |-> 0,
     fell_back |-> FALSE, fail_req |-> 0, scope |-> <<>>]

\* the return after the matching step, with the cache write of line 393
AfterMatch(cache, cache_key, all_info, map, m) ==
    [ret |-> m.response,
     cache |-> IF m.stored THEN CacheStore(cache, cache_key, m.response) ELSE cache,
     topo |-> all_info.cache,
     obs |-> Obs(FALSE, all_info.lc_calls, all_info.ls_calls, FALSE, map, m)]

\* lines 303-407 on the topology all_info
OnTopology(cache, cache_key, cluster_name, service_name, all_info, map, llm1, llm2) ==
    AfterMatch(cache, cache_key, all_info, map,
               MatchStep(map, cluster_name, service_name, llm1, llm2))

\* lines 298-407 with what get_all_clusters_and_services returned
AfterTopology(cache, cache_key, cluster_name, service_name, all_info, llm1, llm2) ==
    IF all_info.error
    THEN [ret |-> ErrorResult("topology"),
          cache |-> OnTopologyError(cache, cache_key),
          topo |-> all_info.cache,
          obs |-> Obs(FALSE, all_info.lc_calls, all_info.ls_calls, TRUE, <<>>, NoMatchStep)]
    ELSE OnTopology(cache, cache_key, cluster_name, service_name, all_info,
                    ClusterServiceMap(all_info.data.clusters, <<>>), llm1, llm2)

\* a resolver that does not look into the Resolution Cache
Lookup_nohit(cache, topo, current_time, cache_key, cluster_name, service_name, listing, failAt, llm1, llm2) ==
    AfterTopology(cache, cache_key, cluster_name, service_name,
                  get_all_clusters_and_services(topo, current_time, listing, failAt),
                  llm1, llm2)

\* lines 275-407 with the cache key
Lookup(cache, topo, current_time, cache_key, cluster_name, service_name, listing, failAt, llm1, llm2) ==
    IF cache_key \in DOMAIN cache
    THEN [ret |-> cache[cache_key], cache |-> cache, topo |-> topo,
          obs |-> Obs(TRUE, 0, 0, FALSE, <<>>, NoMatchStep)]
    ELSE AfterTopology(cache, cache_key, cluster_name, service_name,
                       get_all_clusters_and_services(topo, current_time, listing, failAt),
                       llm1, llm2)

\* The whole call: what it returns, both caches after it, and what it issued.
\* listing / failAt : what the gateway answers if it is asked; llm1 / llm2 :
\* what the matcher does on the first and on the second request if issued.
find_matching_names(cache, topo, current_time, cluster_name, service_name, listing, failAt, llm1, llm2) ==
    Lookup(cache, topo, current_time, CacheKey(cluster_name, service_name),
           cluster_name, service_name, listing, failAt, llm1, llm2)

----------------------------------------------------------------------------
(* The state machine *)

\* the (cluster_name, service_name) pairs the query tools ask for
Query(c, s) == [cluster_name |-> c, service_name |-> s]

Queries ==
    {Query(PyStr(n_a), PyStr(n_a)), Query(PyNone, PyStr(n_b)), Query(PyStr(n_a), PyNone)}

\* the instants at which calls are made: 299 s and 300 s after the first
Instants == {0, 299, 300}

\* A run draws the inputs of its calls from one scenario.
\* Matching scenarios: one pair, one gateway listing, every matcher behaviour.
ScenMatch(q, l) ==
    [queries |-> {q}, listings |-> {l}, llm_first |-> LlmFirst,
     llm_second |-> LlmSecond, instants |-> {0}]

\* Caching scenario: every pair, every listing, every instant, a matcher that
\* answers a consistent pair or fails.
ScenTime ==
    [queries |-> Queries, listings |-> Listings,
     llm_first |-> {LlmReal(Completion("obj", PyStr(n_ab), PyStr(n_a))), LlmPatched("raise")},
     llm_second |-> {LlmReal(NullResult)}, instants |-> Instants]

\* Key scenario: pairs whose f-string rendering may coincide: an unset
\* cluster and a cluster query that reads "None", and names with a ':'.
n_a_b == <<"a", ":", "b">>
n_b_b == <<"b", ":", "b">>

KeyQueries ==
    {Query(PyNone, PyStr(n_b)), Query(PyStr(NoneText), PyStr(n_b)),
     Query(PyStr(n_a_b), PyStr(n_b)), Query(PyStr(n_a), PyStr(n_b_b))}

ScenKeys ==
    [queries |-> KeyQueries, listings |-> {Listing1},
     llm_first |-> {LlmReal(Completion("obj", PyStr(n_ab), PyStr(n_b))),
                    LlmReal(Completion("obj", PyStr(n_b), PyStr(n_c)))},
     llm_second |-> {LlmReal(NullResult)}, instants |-> {0}]

Scenarios == {ScenMatch(q, l) : q \in Queries, l \in Listings} \cup {ScenTime, ScenKeys}

NoScenario ==
    [queries |-> {}, listings |-> {}, llm_first |-> {}, llm_second |-> {}, instants |-> {}]

NoListing == [clusterArns |-> <<>>, pages |-> <<>>]

NoCall ==
    [seq |-> 0, op |-> "none", query |-> Query(PyNone, PyNone),
     ret |-> ErrorResult("none"),
     hit |-> FALSE, lc_calls |-> 0, ls_calls |-> 0, llm_calls |-> 0,
     fell_back |-> FALSE, fail_req |-> 0, stored |-> FALSE, topo_error |-> FALSE,
     map |-> <<>>, scope |-> <<>>, listing |-> NoListing, failAt |-> 0,
     llm1 |-> NoLlm, llm2 |-> NoLlm]

\* no query tool has been called
NoTool ==
    [name |-> "none", matches |-> ErrorResult("none"), status |-> "none",
     gateway_called |-> FALSE, raised |-> FALSE, escaped |-> FALSE, gw |-> "none"]

\* no coroutine is in flight
NoTasks == <<>>

\* cli.main() has not been run
NoCli == [done |-> FALSE]

\* check_ecs_service_status has not looked at a service
NoHealth == [done |-> FALSE]

\* no call is being followed
NoWalk ==
    [pc |-> "idle", calls |-> 0, steps |-> 0, query |-> Query(PyNone, PyNone),
     listing |-> NoListing, all_names |-> <<>>, cluster_names |-> <<>>,
     next_token |-> 0, service_arns |-> <<>>, cluster_services |-> <<>>,
     llm1 |-> NoLlm, ret |-> ErrorResult("none")]

Init ==
    /\ name_matching_cache = <<>>
    /\ clusters_services_cache = [data |-> NoData, timestamp |-> NoTime]
    /\ now = 0
    /\ last = NoCall
    /\ inputs \in Scenarios
    /\ bm = BMIdle
    /\ tool = NoTool
    /\ tasks = NoTasks
    /\ refreshes = {}
    /\ cli = NoCli
    /\ health = NoHealth
    /\ walk = NoWalk

\* does this call reach the gateway?
AsksGateway(q) ==
    /\ CacheKey(q.cluster_name, q.service_name) \notin DOMAIN name_matching_cache
    /\ ~CacheIsFresh(clusters_services_cache, now)

\* does it reach the first matcher request? (a miss whose topology fetch succeeds)
AsksMatcher(q, failAt) ==
    /\ CacheKey(q.cluster_name, q.service_name) \notin DOMAIN name_matching_cache
    /\ failAt = 0

\* can it reach the second matcher request? (the first answered a cluster only)
AsksTwice(q, llm1) ==
    /\ llm1 # NoLlm
    /\ ~ReplyRaises(AwaitCallLlm(llm1))
    /\ NeedsSecond(AwaitCallLlm(llm1).cluster_name, q.service_name,
                   AwaitCallLlm(llm1).service_name)

\* the state after a call that returned r
Returned(q, listing, failAt, llm1, llm2, r) ==
    /\ name_matching_cache' = r.cache
    /\ clusters_services_cache' = r.topo
    /\ last' = [seq |-> 1 - last.seq, op |-> "resolve", query |-> q,
                ret |-> r.ret,
                hit |-> r.obs.hit, lc_calls |-> r.obs.lc_calls,
                ls_calls |-> r.obs.ls_calls, llm_calls |-> r.obs.llm_calls,
                fell_back |-> r.obs.fell_back, fail_req |-> r.obs.fail_req,
                stored |-> r.obs.stored, topo_error |-> r.obs.topo_error,
                map |-> r.obs.map, scope |-> r.obs.scope,
                listing |-> listing, failAt |-> failAt,
                llm1 |-> llm1, llm2 |-> llm2]
    /\ UNCHANGED <<now, inputs, bm, cli, health, walk>>

\* one call of find_matching_names by a query tool
Resolve ==
    \E q \in inputs.queries :
      \E listing \in (IF AsksGateway(q) THEN inputs.listings ELSE {NoListing}) :
        \E failAt \in (IF AsksGateway(q) THEN 0..NumCalls(listing) ELSE {0}) :
          \E llm1 \in (IF AsksMatcher(q, failAt) THEN inputs.llm_first ELSE {NoLlm}) :
            \E llm2 \in (IF AsksTwice(q, llm1) THEN inputs.llm_second ELSE {NoLlm}) :
              /\ Returned(q, listing, failAt, llm1, llm2,
                          find_matching_names(name_matching_cache, clusters_services_cache,
                                              now, q.cluster_name, q.service_name,
                                              listing, failAt, llm1, llm2))
              /\ UNCHANGED <<tool, tasks, refreshes>>

\* time passes between calls
Tick ==
    /\ \E t \in inputs.instants : t > now /\ now' = t
    /\ UNCHANGED <<name_matching_cache, clusters_services_cache, last, inputs, bm,
                   tool, tasks, refreshes, cli, health, walk>>

Next == Resolve \/ Tick

Spec == Init /\ [][Next]_vars

----------------------------------------------------------------------------
(* The heuristic matcher applied to every small target and candidate list *)

InitBM ==
    /\ name_matching_cache = <<>>
    /\ clusters_services_cache = [data |-> NoData, timestamp |-> NoTime]
    /\ now = 0
    /\ last = NoCall
    /\ inputs = NoScenario
    /\ bm \in [target : BMTargets, candidates : ListsUpTo(MaxCands),
               result : {PyNone}, done : {FALSE}]
    /\ tool = NoTool
    /\ tasks = NoTasks
    /\ refreshes = {}
    /\ cli = NoCli
    /\ health = NoHealth
    /\ walk = NoWalk

BMApply ==
    /\ ~bm.done
    /\ bm' = [target |-> bm.target, candidates |-> bm.candidates,
              result |-> find_best_match_basic(bm.target, bm.candidates),
              done |-> TRUE,
              after |-> CandidatesAfter(bm.target, bm.candidates)]
    /\ UNCHANGED <<name_matching_cache, clusters_services_cache, now, last, inputs,
                   tool, tasks, refreshes, cli, health, walk>>

NextBM == BMApply

SpecBM == InitBM /\ [][NextBM]_vars

----------------------------------------------------------------------------
(* The query tools of ECSMCPServer, server.py 42-540 *)

ServiceTools ==
    {"check_ecs_service_status", "get_service_metrics",
     "get_ecs_target_group_response_time", "get_ecs_target_group_request_metrics"}

ToolNames == ServiceTools \cup {"get_ecs_services"}

\* the pair a tool resolves: find_matching_names(service_name=service_name)
\* for the service tools, find_matching_names(cluster_name=cluster_name) for
\* get_ecs_services
ToolQuery(tn, q) ==
    IF tn = "get_ecs_services"
    THEN q.cluster_name.t = "str" /\ q.service_name = PyNone
    ELSE q.cluster_name = PyNone /\ q.service_name.t = "str"

\* a guard that looks at the cluster name only
LacksName_clusterOnly(tn, matches) == ~Truthy(matches.cluster_name)

\* `not matches.get("cluster_name") or not matches.get("service_name")`
\* (51, 201, 277, 386), `not matches.get("cluster_name")` (504)
LacksName(tn, matches) ==
    IF tn = "get_ecs_services"
    THEN ~Truthy(matches.cluster_name)
    ELSE ~Truthy(matches.cluster_name) \/ ~Truthy(matches.service_name)

\* What the gateway does on the calls a tool makes after the resolution: it
\* answers, it raises (ClientError), or it answers with an empty list (no
\* service, no datapoint, no service ARN).
GwKinds == {"ok", "raise", "empty"}

ToolResult(tn, matches, status, gateway_called, raised, gw) ==
    [name |-> tn, matches |-> matches, status |-> status,
     gateway_called |-> gateway_called, raised |-> raised, escaped |-> FALSE,
     gw |-> gw]

\* the status of the dict a tool returns when the gateway answers an empty list:
\* `not_found` (69-73), a success dict (241-264, 528-533), or an IndexError
\* raised by ['services'][0] (289, 398)
OnEmpty(tn, matches) ==
    CASE tn = "check_ecs_service_status" -> ToolResult(tn, matches, "not_found", TRUE, FALSE, "empty")
      [] tn \in {"get_service_metrics", "get_ecs_services"} ->
           ToolResult(tn, matches, "success", TRUE, FALSE, "empty")
      [] OTHER -> ToolResult(tn, matches, "none", TRUE, TRUE, "empty")

\* the dict returned when every gateway call answers: check_ecs_service_status
\* returns its report (180-186), the other tools a dict with status success
OnAnswer(tn, matches) ==
    ToolResult(tn, matches,
               IF tn = "check_ecs_service_status" THEN "report" ELSE "success",
               TRUE, FALSE, "ok")

\* the part of a tool after the guard: gateway calls with cluster=correct_cluster;
\* a cluster name that is not a string is rejected by the gateway client
GatewayPart(tn, matches, gw) ==
    IF matches.cluster_name.t # "str" \/ gw = "raise"
    THEN ToolResult(tn, matches, "none", TRUE, TRUE, gw)
    ELSE IF gw = "empty" THEN OnEmpty(tn, matches)
    ELSE OnAnswer(tn, matches)

\* a handler that lets the exception through
ToolExcept_reraise(r) ==
    IF r.raised THEN [r EXCEPT !.escaped = TRUE] ELSE r

\* `except Exception as e: return {..., "status": "error"}` of every tool
\* (188-193, 266-271, 376-381, 490-492, 535-540)
ToolExcept(r) ==
    IF r.raised THEN [r EXCEPT !.status = "error"] ELSE r

\* the body of a tool once find_matching_names has returned matches
ToolBody(tn, matches, gw) ==
    ToolExcept(IF LacksName(tn, matches)
               THEN ToolResult(tn, matches, "error", FALSE, FALSE, "none")
               ELSE GatewayPart(tn, matches, gw))

\* the state after a tool whose resolution returned r
ToolReturned(tn, q, listing, failAt, llm1, llm2, r) ==
    /\ Returned(q, listing, failAt, llm1, llm2, r)
    /\ \E gw \in (IF LacksName(tn, r.ret) THEN {"none"} ELSE GwKinds) :
         tool' = ToolBody(tn, r.ret, gw)
    /\ UNCHANGED <<tasks, refreshes>>

\* one call of a query tool
ToolCall ==
    \E tn \in ToolNames :
      \E q \in {x \in inputs.queries : ToolQuery(tn, x)} :
        \E listing \in (IF AsksGateway(q) THEN inputs.listings ELSE {NoListing}) :
          \E failAt \in (IF AsksGateway(q) THEN 0..NumCalls(listing) ELSE {0}) :
            \E llm1 \in (IF AsksMatcher(q, failAt) THEN inputs.llm_first ELSE {NoLlm}) :
              \E llm2 \in (IF AsksTwice(q, llm1) THEN inputs.llm_second ELSE {NoLlm}) :
                ToolReturned(tn, q, listing, failAt, llm1, llm2,
                             find_matching_names(name_matching_cache,
                                                 clusters_services_cache,
                                                 now, q.cluster_name, q.service_name,
                                                 listing, failAt, llm1, llm2))

ToolQueries == {q \in Queries : \E tn \in ToolNames : ToolQuery(tn, q)}

ToolScenarios == {ScenMatch(q, l) : q \in ToolQueries, l \in Listings} \cup {ScenTime}

InitTools ==
    /\ name_matching_cache = <<>>
    /\ clusters_services_cache = [data |-> NoData, timestamp |-> NoTime]
    /\ now = 0
    /\ last = NoCall
    /\ inputs \in ToolScenarios
    /\ bm = BMIdle
    /\ tool = NoTool
    /\ tasks = NoTasks
    /\ refreshes = {}
    /\ cli = NoCli
    /\ health = NoHealth
    /\ walk = NoWalk

NextTools == ToolCall \/ Tick

SpecTools == InitTools /\ [][NextTools]_vars

----------------------------------------------------------------------------
(* Concurrent calls of find_matching_names on one event loop.                *)
(* A coroutine can give up the event loop at an `await` only: the two awaits *)
(* of call_llm (client.py 359 and 389) are the only points at which another  *)
(* call could run, and the model lets another call run at both (call_llm as  *)
(* written calls the synchronous completion and never suspends, so the model *)
(* has every interleaving of the code and more).                             *)
(* get_all_clusters_and_services is a plain function called without await    *)
(* (201, 298): a refresh, with its two cache assignments, is inside one step.*)

Tasks == {1, 2}

IdleTask ==
    [pc |-> "idle", query |-> Query(PyNone, PyNone), data |-> NoData,
     llm1 |-> NoLlm, ret |-> ErrorResult("none")]

\* Race scenario: two service or cluster queries, a topology that changes
\* between refreshes, a matcher that answers both names, a cluster only, or fails
ScenRace ==
    [queries |-> {Query(PyNone, PyStr(n_b)), Query(PyStr(n_a), PyNone)},
     listings |-> Listings,
     llm_first |-> {LlmReal(Completion("obj", PyStr(n_ab), PyStr(n_a))),
                    LlmReal(Completion("obj", PyStr(n_ab), PyNone)),
                    LlmPatched("raise")},
     llm_second |-> {LlmReal(Completion("obj", PyNone, PyStr(n_a))), LlmPatched("raise")},
     instants |-> {0, 300}]

InitRace ==
    /\ name_matching_cache = <<>>
    /\ clusters_services_cache = [data |-> NoData, timestamp |-> NoTime]
    /\ now = 0
    /\ last = NoCall
    /\ inputs = ScenRace
    /\ bm = BMIdle
    /\ tool = NoTool
    /\ tasks = [t \in Tasks |-> IdleTask]
    /\ refreshes = {}
    /\ cli = NoCli
    /\ health = NoHealth
    /\ walk = NoWalk

\* lines 275-281: the call is answered from the Resolution Cache
BeginHit(t, q) ==
    /\ CacheKey(q.cluster_name, q.service_name) \in DOMAIN name_matching_cache
    /\ tasks' = [tasks EXCEPT ![t] =
                   [IdleTask EXCEPT !.pc = "done", !.query = q,
                      !.ret = name_matching_cache[CacheKey(q.cluster_name, q.service_name)]]]
    /\ UNCHANGED <<name_matching_cache, clusters_services_cache, refreshes>>

\* lines 298-359 with what get_all_clusters_and_services returned: the call
\* returns the error dict, or goes on to its first `await self.call_llm`
Began(t, q, listing, all_info) ==
    /\ clusters_services_cache' = all_info.cache
    /\ refreshes' = IF all_info.lc_calls = 1 /\ ~all_info.error
                     THEN refreshes \cup {[listing |-> listing, time |-> now]}
                     ELSE refreshes
    /\ tasks' = [tasks EXCEPT ![t] =
                   IF all_info.error
                   THEN [IdleTask EXCEPT !.pc = "done", !.query = q,
                                         !.ret = ErrorResult("topology")]
                   ELSE [IdleTask EXCEPT !.pc = "await1", !.query = q,
                                         !.data = all_info.data]]
    /\ UNCHANGED name_matching_cache

BeginMiss(t, q) ==
    /\ CacheKey(q.cluster_name, q.service_name) \notin DOMAIN name_matching_cache
    /\ \E listing \in (IF AsksGateway(q) THEN inputs.listings ELSE {NoListing}) :
         \E failAt \in (IF AsksGateway(q) THEN 0..NumCalls(listing) ELSE {0}) :
           Began(t, q, listing,
                 get_all_clusters_and_services(clusters_services_cache, now,
                                               listing, failAt))

\* a call starts and runs up to its first await
Begin(t) ==
    /\ tasks[t].pc = "idle"
    /\ \E q \in inputs.queries : BeginHit(t, q) \/ BeginMiss(t, q)
    /\ UNCHANGED <<now, last, inputs, bm, tool, cli, health, walk>>

\* the first reply names a cluster but no service: the call runs on to its
\* second await (361-389)
FirstReply(t) ==
    /\ tasks[t].pc = "await1"
    /\ \E llm1 \in inputs.llm_first :
         /\ AsksTwice(tasks[t].query, llm1)
         /\ tasks' = [tasks EXCEPT ![t].pc = "await2", ![t].llm1 = llm1]
    /\ UNCHANGED <<name_matching_cache, clusters_services_cache, now, last, inputs,
                   bm, tool, refreshes, cli, health, walk>>

\* the end of the call with the outcome m of the matching step (393-407)
Finished(t, m) ==
    /\ name_matching_cache' =
         IF m.stored
         THEN CacheStore(name_matching_cache,
                         CacheKey(tasks[t].query.cluster_name,
                                  tasks[t].query.service_name),
                         m.response)
         ELSE name_matching_cache
    /\ tasks' = [tasks EXCEPT ![t].pc = "done", ![t].ret = m.response]

\* the last reply arrives and the call runs to its return
Finish(t) ==
    /\ tasks[t].pc \in {"await1", "await2"}
    /\ \E llm1 \in (IF tasks[t].pc = "await2" THEN {tasks[t].llm1}
                     ELSE {l \in inputs.llm_first : ~AsksTwice(tasks[t].query, l)}) :
         \E llm2 \in (IF tasks[t].pc = "await2" THEN inputs.llm_second ELSE {NoLlm}) :
           Finished(t, MatchStep(ClusterServiceMap(tasks[t].data.clusters, <<>>),
                                 tasks[t].query.cluster_name,
                                 tasks[t].query.service_name, llm1, llm2))
    /\ UNCHANGED <<clusters_services_cache, now, last, inputs, bm, tool, refreshes,
                   cli, health, walk>>

NextRace == (\E t \in Tasks : Begin(t) \/ FirstReply(t) \/ Finish(t)) \/ Tick

SpecRace == InitRace /\ [][NextRace]_vars

----------------------------------------------------------------------------
(* cli.main(), cli.py 25-66 *)

\* a command-line option is not given, given with an empty value, or given
ArgValues == {"absent", "empty", "set"}

\* what the collaborators of main() do: the constructors of AWSClientManager
\* and ECSMCPServer (45-58), anyio.run (60) and run_mcp_blocking (61)
EnvOutcomes == {"ok", "raise"}

RequiredArgs == {"openai_api_key", "access_key", "secret_access_key", "region"}

\* how main() ends: how it left (return / SystemExit), with which code, and
\* how often it ran the initialization and the server
CliOutcome(c, exit, code, init_runs, server_runs) ==
    [c EXCEPT !.done = TRUE, !.exit = exit, !.code = code,
              !.init_runs = init_runs, !.server_runs = server_runs]

\* parser.parse_args() (27-36): the four options are declared required=True,
\* and argparse leaves with SystemExit(2) when one of them is not given
MissingRequired(c) == \E a \in RequiredArgs : c[a] = "absent"

\* the test of line 38 on the parsed values
FalsyArgument(c) == \E a \in RequiredArgs : c[a] = "empty"

\* lines 43-66 once the arguments are accepted
RunServer(c) ==
    IF c.construct = "raise" THEN CliOutcome(c, "return", 1, 0, 0)
    ELSE IF c.anyio_run = "raise" THEN CliOutcome(c, "return", 1, 1, 0)
    ELSE IF c.run_mcp_blocking = "raise" THEN CliOutcome(c, "return", 1, 1, 1)
    ELSE CliOutcome(c, "return", 0, 1, 1)

main(c) ==
    IF MissingRequired(c) THEN CliOutcome(c, "SystemExit", 2, 0, 0)
    ELSE IF FalsyArgument(c) THEN CliOutcome(c, "return", 1, 0, 0)
    ELSE RunServer(c)

InitCli ==
    /\ name_matching_cache = <<>>
    /\ clusters_services_cache = [data |-> NoData, timestamp |-> NoTime]
    /\ now = 0
    /\ last = NoCall
    /\ inputs = NoScenario
    /\ bm = BMIdle
    /\ tool = NoTool
    /\ tasks = NoTasks
    /\ refreshes = {}
    /\ cli \in [done : {FALSE}, openai_api_key : ArgValues, access_key : ArgValues,
                secret_access_key : ArgValues, region : ArgValues,
                construct : EnvOutcomes, anyio_run : EnvOutcomes,
                run_mcp_blocking : EnvOutcomes,
                exit : {"none"}, code : {-1}, init_runs : {0}, server_runs : {0}]
    /\ health = NoHealth
    /\ walk = NoWalk

\* one run of main()
Main ==
    /\ ~cli.done
    /\ cli' = main(cli)
    /\ UNCHANGED <<name_matching_cache, clusters_services_cache, now, last, inputs, bm,
                   tool, tasks, refreshes, health, walk>>

NextCli == Main

SpecCli == InitCli /\ [][NextCli]_vars

----------------------------------------------------------------------------
(* One call of find_matching_names followed from upstream call to upstream
   call: list_clusters, every list_services page, the matcher requests.
   Each upstream call returns or raises. *)

\* calls followed in one run
MaxCalls == 2

\* where the call is: the upstream call it is waiting for
InFlight == walk.pc \in {"list_clusters", "list_services", "first_request", "second_request"}

\* lines 275-300: the call runs to its first upstream call, or returns a hit
LiveEntered(q, listing, cache_key) ==
    [NoWalk EXCEPT
       !.calls = walk.calls + 1, !.query = q, !.listing = listing,
       !.pc = IF cache_key \in DOMAIN name_matching_cache THEN "returned"
              ELSE IF CacheIsFresh(clusters_services_cache, now) THEN "first_request"
              ELSE "list_clusters",
       !.ret = IF cache_key \in DOMAIN name_matching_cache
               THEN name_matching_cache[cache_key] ELSE ErrorResult("none")]

LiveEnter ==
    /\ walk.pc \in {"idle", "returned"}
    /\ walk.calls < MaxCalls
    /\ \E q \in inputs.queries : \E listing \in inputs.listings :
         walk' = LiveEntered(q, listing, CacheKey(q.cluster_name, q.service_name))
    /\ UNCHANGED <<name_matching_cache, clusters_services_cache, now, last, inputs, bm,
                   tool, tasks, refreshes, cli, health>>

\* an upstream call of the refresh raised: except branch 262-267, then the
\* error dict is returned by line 300; no cache is written
LiveGatewayRaised ==
    /\ walk' = [walk EXCEPT !.pc = "returned", !.steps = @ + 1,
                            !.ret = ErrorResult("topology")]
    /\ name_matching_cache' = OnTopologyError(name_matching_cache,
                                              CacheKey(walk.query.cluster_name,
                                                       walk.query.service_name))
    /\ clusters_services_cache' = RefreshFailed(clusters_services_cache, 1).cache

\* lines 242-260 when the last cluster is done
LiveStored(cluster_services) ==
    /\ walk' = [walk EXCEPT !.pc = "first_request", !.steps = @ + 1,
                            !.cluster_names = <<>>, !.next_token = 0,
                            !.service_arns = <<>>,
                            !.cluster_services = cluster_services]
    /\ clusters_services_cache' =
           StoreSnapshot(now, FormatResponse(walk.all_names, cluster_services), 1).cache
    /\ UNCHANGED name_matching_cache

\* list_clusters answers (213-218)
LiveListClusters ==
    /\ walk.pc = "list_clusters"
    /\ \E ok \in BOOLEAN :
         IF ~ok THEN LiveGatewayRaised
         ELSE IF walk.listing.clusterArns = <<>> THEN LiveStored(<<>>)
         ELSE /\ walk' = [walk EXCEPT !.pc = "list_services", !.steps = @ + 1,
                            !.all_names = ShortNames(walk.listing.clusterArns),
                            !.cluster_names = ShortNames(walk.listing.clusterArns)]
              /\ UNCHANGED <<name_matching_cache, clusters_services_cache>>
    /\ UNCHANGED <<now, last, inputs, bm, tool, tasks, refreshes, cli, health>>

\* one page was added (231-232); `if not next_token: break` (234-235), then
\* the next cluster of the for loop or the end of the refresh
LivePageAdded(services_response, acc) ==
    IF services_response.nextToken # 0
    THEN /\ walk' = [walk EXCEPT !.steps = @ + 1, !.service_arns = acc,
                                 !.next_token = services_response.nextToken]
         /\ UNCHANGED <<name_matching_cache, clusters_services_cache>>
    ELSE IF Tail(walk.cluster_names) # <<>>
    THEN /\ walk' = [walk EXCEPT !.steps = @ + 1, !.service_arns = <<>>,
                                 !.next_token = 0,
                                 !.cluster_names = Tail(walk.cluster_names),
                                 !.cluster_services =
                                     DictSet(walk.cluster_services, Head(walk.cluster_names),
                                             ShortNames(acc))]
         /\ UNCHANGED <<name_matching_cache, clusters_services_cache>>
    ELSE LiveStored(DictSet(walk.cluster_services, Head(walk.cluster_names),
                            ShortNames(acc)))

\* one list_services call of the `while True` loop answers (225-235)
LiveListServices ==
    /\ walk.pc = "list_services"
    /\ \E ok \in BOOLEAN :
         IF ~ok THEN LiveGatewayRaised
         ELSE LivePageAdded(
                 list_services(walk.listing, Head(walk.cluster_names), walk.next_token),
                 walk.service_arns
                 \o list_services(walk.listing, Head(walk.cluster_names),
                                  walk.next_token).serviceArns)
    /\ UNCHANGED <<now, last, inputs, bm, tool, tasks, refreshes, cli, health>>

\* a resolver that asks the first request again after a cluster-only answer
LiveAfterFirst_retry(twice) == IF twice THEN "first_request" ELSE "returned"

\* where the call goes when the first request has answered (372, 389)
LiveAfterFirst(twice) == IF twice THEN "second_request" ELSE "returned"

\* lines 303-407 on the snapshot the call holds, with the matcher's answers
LiveMatch(llm1, llm2) ==
    OnTopology(name_matching_cache,
               CacheKey(walk.query.cluster_name, walk.query.service_name),
               walk.query.cluster_name, walk.query.service_name,
               [error |-> FALSE, data |-> clusters_services_cache.data,
                cache |-> clusters_services_cache, lc_calls |-> 0, ls_calls |-> 0],
               ClusterServiceMap(clusters_services_cache.data.clusters, <<>>),
               llm1, llm2)

\* the call returns r.ret (393, 407, 409-414)
LiveReturned(r) ==
    /\ walk' = [walk EXCEPT !.pc = "returned", !.steps = @ + 1, !.ret = r.ret]
    /\ name_matching_cache' = r.cache
    /\ UNCHANGED clusters_services_cache

\* the first matcher request answers or fails (359)
LiveFirstRequest ==
    /\ walk.pc = "first_request"
    /\ \E llm1 \in inputs.llm_first :
         IF LiveAfterFirst(AsksTwice(walk.query, llm1)) # "returned"
         THEN /\ walk' = [walk EXCEPT !.pc = LiveAfterFirst(TRUE), !.steps = @ + 1,
                                      !.llm1 = llm1]
              /\ UNCHANGED <<name_matching_cache, clusters_services_cache>>
         ELSE LiveReturned(LiveMatch(llm1, NoLlm))
    /\ UNCHANGED <<now, last, inputs, bm, tool, tasks, refreshes, cli, health>>

\* the second matcher request answers or fails (389)
LiveSecondRequest ==
    /\ walk.pc = "second_request"
    /\ \E llm2 \in inputs.llm_second : LiveReturned(LiveMatch(walk.llm1, llm2))
    /\ UNCHANGED <<now, last, inputs, bm, tool, tasks, refreshes, cli, health>>

InitLive ==
    /\ name_matching_cache = <<>>
    /\ clusters_services_cache = [data |-> NoData, timestamp |-> NoTime]
    /\ now = 0
    /\ last = NoCall
    /\ inputs \in {ScenMatch(q, l) : q \in Queries, l \in Listings}
    /\ bm = BMIdle
    /\ tool = NoTool
    /\ tasks = NoTasks
    /\ refreshes = {}
    /\ cli = NoCli
    /\ health = NoHealth
    /\ walk = NoWalk

\* an upstream call that was issued returns or fails
LiveUpstream ==
    LiveListClusters \/ LiveListServices \/ LiveFirstRequest \/ LiveSecondRequest

NextLive == LiveEnter \/ LiveUpstream

\* every upstream call that is awaited is eventually answered
SpecLive ==
    /\ InitLive /\ [][NextLive]_vars
    /\ WF_vars(LiveListClusters) /\ WF_vars(LiveListServices)
    /\ WF_vars(LiveFirstRequest) /\ WF_vars(LiveSecondRequest)

----------------------------------------------------------------------------
(* check_ecs_service_status, server.py 42-193, once the names are resolved *)

\* the largest runningCount / desiredCount of a service
MaxCount == 1

Deployment(status, rolloutState) == [status |-> status, rolloutState |-> rolloutState]

NoDeployment == Deployment("none", "none")

RolloutStates == {"COMPLETED", "IN_PROGRESS", "FAILED"}

\* service['deployments']: none, a PRIMARY one, or an ACTIVE one before it
DeploymentLists ==
    {<<>>}
    \cup {<<Deployment("PRIMARY", r)>> : r \in RolloutStates}
    \cup {<<Deployment("ACTIVE", "COMPLETED"), Deployment("PRIMARY", r)>> : r \in RolloutStates}

\* a load balancer entry: with a targetGroupArn and the states of its
\* targets, or a classic one without target group
LoadBalancer(hasTargetGroup, targets) == [hasTargetGroup |-> hasTargetGroup, targets |-> targets]

TargetGroups ==
    {LoadBalancer(FALSE, <<>>), LoadBalancer(TRUE, <<>>), LoadBalancer(TRUE, <<"healthy">>),
     LoadBalancer(TRUE, <<"healthy", "unhealthy">>), LoadBalancer(TRUE, <<"draining">>)}

\* the 'loadBalancers' key of the service: absent, or a list
LoadBalancerLists ==
    {[present |-> FALSE, lbs |-> <<>>], [present |-> TRUE, lbs |-> <<>>]}
    \cup {[present |-> TRUE, lbs |-> <<lb>>] : lb \in TargetGroups}
    \cup {[present |-> TRUE,
           lbs |-> <<LoadBalancer(TRUE, <<"healthy">>), LoadBalancer(TRUE, <<"unhealthy">>)>>],
          [present |-> TRUE,
           lbs |-> <<LoadBalancer(FALSE, <<>>), LoadBalancer(TRUE, <<"healthy">>)>>]}

\* the running tasks of the service, each by the lastStatus of its containers
TaskLists == {<<>>, << <<"RUNNING">> >>, << <<"RUNNING">>, <<"RUNNING", "STOPPED">> >>}

\* what describe_services answers, and which later gateway call raises
DescribeOutcomes == {"service", "empty", "failures", "raise"}
GatewayFailures == {"none", "describe_target_health", "list_tasks", "describe_tasks"}

\* next((d for d in service['deployments'] if d['status'] == 'PRIMARY'), None)
PrimaryDeployment(deployments) ==
    IF \E i \in 1..Len(deployments) : deployments[i].status = "PRIMARY"
    THEN deployments[CHOOSE i \in 1..Len(deployments) :
                        /\ deployments[i].status = "PRIMARY"
                        /\ \A j \in 1..(i - 1) : deployments[j].status # "PRIMARY"]
    ELSE NoDeployment

\* status['deployment']['status'] (108)
RolloutStatus(primary_deployment) ==
    IF primary_deployment # NoDeployment THEN primary_deployment.rolloutState
    ELSE "No active deployment"

\* [t for t in health if t['TargetHealth']['State'] != 'healthy']
UnhealthyTargets(targets) == SelectSeq(targets, LAMBDA t : t # "healthy")

\* the loop of lines 119-140: one entry per target group with an unhealthy target
RECURSIVE TargetHealth(_, _)
TargetHealth(lbs, target_health) ==
    IF lbs = <<>> THEN target_health
    ELSE IF Head(lbs).hasTargetGroup /\ UnhealthyTargets(Head(lbs).targets) # <<>>
    THEN TargetHealth(Tail(lbs),
                      Append(target_health,
                             [healthy_count |-> Len(Head(lbs).targets)
                                                - Len(UnhealthyTargets(Head(lbs).targets)),
                              unhealthy_count |-> Len(UnhealthyTargets(Head(lbs).targets)),
                              unhealthy_targets |-> UnhealthyTargets(Head(lbs).targets)]))
    ELSE TargetHealth(Tail(lbs), target_health)

\* the describe_target_health calls of that loop
TargetHealthCalls(lbs) == Len(SelectSeq(lbs, LAMBDA lb : lb.hasTargetGroup))

\* a health test that does not look at the target groups
ServiceHealthy_ignoringTargets(running_count, desired_count, deployment_status, target_health) ==
    /\ running_count = desired_count
    /\ deployment_status \in {"COMPLETED", "IN_PROGRESS"}

\* service_healthy (142-146)
ServiceHealthy(running_count, desired_count, deployment_status, target_health) ==
    /\ running_count = desired_count
    /\ deployment_status \in {"COMPLETED", "IN_PROGRESS"}
    /\ target_health = <<>>

\* the tasks with a container whose lastStatus is not RUNNING (161-176)
UnhealthyTasks(described) ==
    SelectSeq(described, LAMBDA task : \E c \in 1..Len(task) : task[c] # "RUNNING")

\* what one call did and returned
HealthOutcome(h, outcome, dth, lt, dt, target_health, unhealthy_tasks) ==
    [h EXCEPT !.done = TRUE, !.outcome = outcome,
              !.describe_target_health_calls = dth,
              !.list_tasks_calls = lt, !.describe_tasks_calls = dt,
              !.target_health = target_health, !.unhealthy_tasks = unhealthy_tasks]

\* lines 148-186 for a service that is not healthy
InspectTasks(h, dth, target_health) ==
    IF h.fail = "list_tasks"
    THEN HealthOutcome(h, "error", dth, 1, 0, PyAbsent, PyAbsent)
    ELSE IF h.tasks = <<>>
    THEN HealthOutcome(h, "report", dth, 1, 0,
                       IF target_health # <<>> THEN PyList(target_health) ELSE PyNone,
                       PyNone)
    ELSE IF h.fail = "describe_tasks"
    THEN HealthOutcome(h, "error", dth, 1, 1, PyAbsent, PyAbsent)
    ELSE HealthOutcome(h, "report", dth, 1, 1,
                       IF target_health # <<>> THEN PyList(target_health) ELSE PyNone,
                       PyList(UnhealthyTasks(h.tasks)))

\* lines 142-186 with the status and the target health collected
AfterTargetHealth(h, deployment_status, dth, target_health) ==
    IF ServiceHealthy(h.running_count, h.desired_count, deployment_status, target_health)
    THEN HealthOutcome(h, "report", dth, 0, 0,
                       IF target_health # <<>> THEN PyList(target_health) ELSE PyNone,
                       PyNone)
    ELSE InspectTasks(h, dth, target_health)

\* lines 83-186 for the service describe_services returned
InspectService(h) ==
    IF h.loadBalancers.present /\ TargetHealthCalls(h.loadBalancers.lbs) > 0
       /\ h.fail = "describe_target_health"
    THEN HealthOutcome(h, "error", 1, 0, 0, PyAbsent, PyAbsent)
    ELSE AfterTargetHealth(h, RolloutStatus(PrimaryDeployment(h.deployments)),
                           IF h.loadBalancers.present
                           THEN TargetHealthCalls(h.loadBalancers.lbs) ELSE 0,
                           IF h.loadBalancers.present
                           THEN TargetHealth(h.loadBalancers.lbs, <<>>) ELSE <<>>)

\* the body after the names were resolved (63-193)
check_ecs_service_status(h) ==
    IF h.describe = "raise" THEN HealthOutcome(h, "error", 0, 0, 0, PyAbsent, PyAbsent)
    ELSE IF h.describe = "empty"
    THEN HealthOutcome(h, "not_found", 0, 0, 0, PyAbsent, PyAbsent)
    ELSE IF h.describe = "failures"
    THEN HealthOutcome(h, "error", 0, 0, 0, PyAbsent, PyAbsent)
    ELSE InspectService(h)

InitHealth ==
    /\ name_matching_cache = <<>>
    /\ clusters_services_cache = [data |-> NoData, timestamp |-> NoTime]
    /\ now = 0
    /\ last = NoCall
    /\ inputs = NoScenario
    /\ bm = BMIdle
    /\ tool = NoTool
    /\ tasks = NoTasks
    /\ refreshes = {}
    /\ cli = NoCli
    /\ walk = NoWalk
    /\ health \in [done : {FALSE}, describe : DescribeOutcomes,
                   running_count : 0..MaxCount, desired_count : 0..MaxCount,
                   deployments : DeploymentLists, loadBalancers : LoadBalancerLists,
                   tasks : TaskLists, fail : GatewayFailures,
                   outcome : {"none"}, describe_target_health_calls : {0},
                   list_tasks_calls : {0}, describe_tasks_calls : {0},
                   target_health : {PyAbsent}, unhealthy_tasks : {PyAbsent}]

\* one call of the tool
CheckStatus ==
    /\ ~health.done
    /\ health' = check_ecs_service_status(health)
    /\ UNCHANGED <<name_matching_cache, clusters_services_cache, now, last, inputs, bm,
                   tool, tasks, refreshes, cli, walk>>

NextHealth == CheckStatus

SpecHealth == InitHealth /\ [][NextHealth]_vars

----------------------------------------------------------------------------
(* Properties of the heuristic matcher *)

\* the rule list of the heuristic matcher, stated without loops or sorting
RefCandidates(t, candidates) ==
    {i \in 1..Len(candidates) :
        IsSubstr(t, Lower(candidates[i])) \/ IsSubstr(Lower(candidates[i]), t)}

RefExact(t, candidates) == {i \in 1..Len(candidates) : Lower(candidates[i]) = t}

RefFirst(S) == CHOOSE i \in S : \A j \in S : i <= j

RefShortest(S, candidates) ==
    CHOOSE i \in S : \A j \in S :
        \/ Len(candidates[i]) < Len(candidates[j])
        \/ (Len(candidates[i]) = Len(candidates[j]) /\ i <= j)

RefBestMatch(target, candidates) ==
    IF target.t # "str" \/ target.v = <<>> \/ candidates = <<>> THEN PyNone
    ELSE LET t == Lower(target.v)
         IN  IF RefExact(t, candidates) # {}
             THEN PyStr(candidates[RefFirst(RefExact(t, candidates))])
             ELSE IF RefCandidates(t, candidates) # {}
             THEN PyStr(candidates[RefShortest(RefCandidates(t, candidates), candidates)])
             ELSE PyNone

\* C8: find_best_match_basic equals the rule list for every target and
\* candidate sequence: null for an empty target or candidate list, else the
\* first case-insensitive exact match, else the shortest candidate that
\* contains the target or is contained in it (earliest on ties), else null.
C8_BestMatchRule ==
    bm.done => bm.result = RefBestMatch(bm.target, bm.candidates)

\* two different candidates of equal length both match partially, none exactly,
\* and the earlier one is returned
C8_Witness ==
    /\ bm.done
    /\ bm.target.t = "str"
    /\ Len(bm.candidates) = 2
    /\ bm.candidates[1] # bm.candidates[2]
    /\ Len(bm.candidates[1]) = Len(bm.candidates[2])
    /\ RefExact(Lower(bm.target.v), bm.candidates) = {}
    /\ RefCandidates(Lower(bm.target.v), bm.candidates) = {1, 2}
    /\ bm.result = PyStr(bm.candidates[1])

----------------------------------------------------------------------------
(* Properties of the resolver and of the two caches *)

Called == last.op = "resolve"

\* this step is a call of find_matching_names
ResolveStep == last'.seq # last.seq

LastKey == CacheKey(last.query.cluster_name, last.query.service_name)

\* the replies the resolver got on its first and second matcher request
Reply1 == AwaitCallLlm(last.llm1)
Reply2 == AwaitCallLlm(last.llm2)

\* the call got a topology and went on to the matcher
Matched == Called /\ ~last.hit /\ ~last.topo_error

\* s is a service of cluster c in the cluster -> services map
ServiceOf(map, c, s) ==
    /\ c.t = "str" /\ s.t = "str"
    /\ \E i \in 1..Len(map) : map[i][1] = c.v /\ InList(s.v, map[i][2])

C2_Consistent ==
    (Matched /\ last.ret.status # "error"
       /\ last.ret.cluster_name.t = "str" /\ last.ret.service_name.t = "str")
    => ServiceOf(last.map, last.ret.cluster_name, last.ret.service_name)

\* C3: when the matcher answers a service without a cluster and the service
\* belongs to a cluster of the topology, the result names that cluster.
C3_Repair ==
    (Matched /\ Reply1.kind = "obj"
       /\ IsNull(Reply1.cluster_name) /\ ~IsNull(Reply1.service_name)
       /\ \E i \in 1..Len(last.map) : InList(Reply1.service_name.v, last.map[i][2]))
    => /\ last.ret.cluster_name.t = "str"
       /\ ServiceOf(last.map, last.ret.cluster_name, Reply1.service_name)

\* a matcher request failed: the completion raised or returned unusable
\* content, or the call_llm that was called raised or returned no JSON text
Failed(llm) == llm.out.kind \in {"raise", "bad", "nonobj"}

MatcherFailed ==
    /\ Matched
    /\ \/ Failed(last.llm1)
       \/ (last.llm_calls = 2 /\ Failed(last.llm2))

\* the heuristic matcher found this name for this query among these candidates
HeuristicFound(query, name, candidates) ==
    ~IsNull(RefBestMatch(query, candidates)) /\ name = RefBestMatch(query, candidates)

FieldsFromHeuristic ==
    /\ ~IsNull(last.ret.cluster_name)
         => HeuristicFound(last.query.cluster_name, last.ret.cluster_name,
                           DictKeys(last.map))
    /\ ~IsNull(last.ret.service_name)
         => \/ HeuristicFound(last.query.service_name, last.ret.service_name,
                              DictKeys(last.map))
            \/ \E i \in 1..Len(last.map) :
                 /\ last.ret.cluster_name = PyStr(last.map[i][1])
                 /\ HeuristicFound(last.query.service_name, last.ret.service_name,
                                   last.map[i][2])

CallLlmBroke(llm) == llm.patched /\ llm.out.kind \in {"raise", "bad"}

\* the cluster query is a substring of a cluster name, case-insensitively
ClusterQueryMatches ==
    /\ Truthy(last.query.cluster_name)
    /\ \E i \in 1..Len(last.map) :
         IsSubstr(Lower(last.query.cluster_name.v), Lower(last.map[i][1]))

\* C5: when call_llm raises or returns unparseable text and the cluster query
\* substring-matches a cluster name, the result has status success and at
\* least one of the two names.
C5_BasicMatching ==
    (Matched /\ ClusterQueryMatches
       /\ (CallLlmBroke(last.llm1) \/ (last.llm_calls = 2 /\ CallLlmBroke(last.llm2))))
    => /\ last.ret.status = "success"
       /\ (~IsNull(last.ret.cluster_name) \/ ~IsNull(last.ret.service_name))

\* call_llm raised on the second request and the heuristic named the cluster
C5_Witness ==
    /\ Matched /\ ClusterQueryMatches
    /\ last.llm_calls = 2 /\ CallLlmBroke(last.llm2)
    /\ last.ret.status = "success"
    /\ last.ret.cluster_name = PyStr(n_ab)

\* C6: a call on an uncached key that follows, within the TTL, a call on a
\* different uncached key that refreshed the topology issues no gateway call:
\* list_clusters fired once for the two.
C6_RefreshSkipped ==
    [][(/\ ResolveStep /\ Called
        /\ ~last.hit /\ last.lc_calls = 1 /\ ~last.topo_error
        /\ ~last'.hit /\ last'.query # last.query
        /\ now - clusters_services_cache.timestamp < cache_ttl)
        => /\ last.lc_calls + last'.lc_calls = 1
           /\ last'.ls_calls = 0
           /\ ~last'.topo_error]_vars

\* a cache miss served from a snapshot that is 299 s old
C6_Witness ==
    /\ Matched /\ last.lc_calls = 0 /\ last.ls_calls = 0
    /\ now = 299 /\ clusters_services_cache.timestamp = 0
    /\ Cardinality(DOMAIN name_matching_cache) = 2

\* all pages of a cluster, in page order
RECURSIVE AllPages(_)
AllPages(pages) == IF pages = <<>> THEN <<>> ELSE Head(pages) \o AllPages(Tail(pages))

\* the snapshot lists every cluster of the listing with all its pages
Complete(listing, data) ==
    /\ ~data.isNone
    /\ \A i \in 1..Len(listing.clusterArns) :
         \E j \in 1..Len(data.clusters) :
           /\ data.clusters[j].name = LastSegment(listing.clusterArns[i])
           /\ data.clusters[j].services
                = ShortNames(AllPages(listing.pages[data.clusters[j].name]))
    /\ \A j \in 1..Len(data.clusters) :
         \E i \in 1..Len(listing.clusterArns) :
           data.clusters[j].name = LastSegment(listing.clusterArns[i])

\* C7: a refreshed snapshot holds, for every cluster, the services of all
\* pages in page order, and the cache only ever holds complete snapshots.
C7_Pagination ==
    /\ (Called /\ last.lc_calls = 1 /\ ~last.topo_error)
         => /\ Complete(last.listing, clusters_services_cache.data)
            /\ last.lc_calls + last.ls_calls = NumCalls(last.listing)
    /\ clusters_services_cache.data.isNone
         \/ \E l \in Listings : Complete(l, clusters_services_cache.data)

\* the two pages of cluster ab were collected in order
C7_Witness ==
    /\ Called /\ last.lc_calls = 1 /\ ~last.topo_error
    /\ last.listing = Listing1
    /\ clusters_services_cache.data.clusters[1].name = n_ab
    /\ clusters_services_cache.data.clusters[1].services = <<n_a, n_b>>

\* C9: a call that takes the fallback path stores its result under the key of
\* its input pair.
C9_FallbackStored ==
    (Called /\ last.fell_back)
    => /\ LastKey \in DOMAIN name_matching_cache
       /\ name_matching_cache[LastKey] = last.ret

\* C10: a cache-miss call whose topology fetch fails returns the error
\* result of that one failure: no gateway call after the failing one, no
\* matcher request, the Resolution Cache unchanged, and a following call
\* with the same pair is a miss again.
C10_UpstreamUnavailable ==
    [][/\ (ResolveStep /\ last'.topo_error)
            => /\ last'.ret = ErrorResult("topology")
               /\ last'.failAt > 0
               /\ last'.lc_calls + last'.ls_calls = last'.failAt
               /\ last'.llm_calls = 0
               /\ name_matching_cache' = name_matching_cache
               /\ clusters_services_cache' = clusters_services_cache
       /\ (ResolveStep /\ Called /\ last.topo_error /\ last'.query = last.query)
            => ~last'.hit]_vars

\* the third gateway call failed: the error came back after three calls
C10_Witness ==
    /\ Called /\ last.topo_error /\ last.ret.status = "error"
    /\ last.failAt = 3 /\ last.lc_calls = 1 /\ last.ls_calls = 2
    /\ last.llm_calls = 0
    /\ LastKey \notin DOMAIN name_matching_cache

\* C11: a topology refresh that fails at any gateway call (list_clusters or
\* any page of list_services) returns the structured error and leaves the
\* snapshot and its capture timestamp as they were before the call; what the
\* cache holds is never a partially built snapshot.
C11_RefreshFailureKeepsCache ==
    [][(ResolveStep /\ last'.failAt > 0)
         => /\ last'.topo_error
            /\ last'.ret.status = "error"
            /\ clusters_services_cache'.data = clusters_services_cache.data
            /\ clusters_services_cache'.timestamp = clusters_services_cache.timestamp
            /\ clusters_services_cache'.data.isNone
                 \/ \E l \in Listings : Complete(l, clusters_services_cache'.data)]_vars

\* a refresh of an expired snapshot failed on a page of list_services after
\* one page had been read, and the expired snapshot is still there
C11_Witness ==
    /\ Called /\ last.topo_error /\ last.failAt = 3
    /\ last.listing = Listing1
    /\ now = 300
    /\ clusters_services_cache.timestamp = 0
    /\ Complete(Listing2, clusters_services_cache.data)

\* C12: on a fetched topology no matcher failure (an exception, malformed
\* output or an unknown name, on the first request or on the second) makes
\* the call return status error.
C12_MatcherNeverError ==
    Matched => last.ret.status # "error"

\* the completion failed or returned unparseable content, and call_llm
\* turned that into the all-null result
AdapterGaveNulls(llm) == ~llm.patched /\ llm.out.kind \in {"raise", "bad"}

\* C13: when call_llm yields the all-null result because the completion
\* failed or returned unparseable content, the returned names are those of
\* the heuristic matcher: the cluster it finds for the cluster query among
\* the cluster names and the service it finds for the service query among
\* the services of that cluster, non-null whenever it finds a candidate.
C13_NullResultFallsBack ==
    (Matched /\ AdapterGaveNulls(last.llm1))
    => /\ last.ret.cluster_name
             = RefBestMatch(last.query.cluster_name, DictKeys(last.map))
       /\ \A i \in 1..Len(last.map) :
             last.ret.cluster_name = PyStr(last.map[i][1])
               => last.ret.service_name
                    = RefBestMatch(last.query.service_name, last.map[i][2])

\* the matcher requests the last call issued through call_llm itself
RealRequests ==
    {req \in {last.llm1, last.llm2} : ~req.patched /\ req.out.kind # "none"}

\* C14: call_llm never raises: when the completion call fails or its content
\* is not JSON it returns the null-result shape, so the resolver parses the
\* reply, does not enter its except branch for it and issues no second
\* request; content that is JSON is returned as it is.
C14_AdapterNeverRaises ==
    Called =>
      /\ \A req \in RealRequests :
            /\ call_llm(req.out).kind \notin {"raise", "bad"}
            /\ req.out.kind \in {"raise", "bad"} => call_llm(req.out) = NullResult
            /\ req.out.kind \in {"nonobj", "obj"} => call_llm(req.out) = req.out
      /\ AdapterGaveNulls(last.llm1)
            => /\ ~last.fell_back /\ last.llm_calls = 1
               /\ last.ret = Response("success", PyNone, PyNone)

\* the completion raised on the first request and the resolver went on with
\* the two nulls of the adapter
C14_Witness ==
    /\ Matched /\ ~last.llm1.patched /\ last.llm1.out.kind = "raise"
    /\ ~last.fell_back /\ last.stored
    /\ last.ret.status = "success" /\ IsNull(last.ret.cluster_name)

\* the key of the pair the next call is made with
NextKey == CacheKey(last'.query.cluster_name, last'.query.service_name)

\* C15: a call with a pair whose result is in the Resolution Cache returns
\* the stored result and issues no gateway call and no matcher request,
\* whatever the age of the topology snapshot, and leaves both caches as they
\* are (so the same holds for every later call with that pair).
C15_HitIsFinal ==
    [][(ResolveStep /\ NextKey \in DOMAIN name_matching_cache)
         => /\ last'.hit
            /\ last'.ret = name_matching_cache[NextKey]
            /\ last'.lc_calls = 0 /\ last'.ls_calls = 0 /\ last'.llm_calls = 0
            /\ name_matching_cache' = name_matching_cache
            /\ clusters_services_cache' = clusters_services_cache]_vars

\* a hit at 300 s, when the snapshot of 0 s has expired: no refresh was made
C15_Witness ==
    /\ Called /\ last.hit /\ now = 300
    /\ clusters_services_cache.timestamp = 0
    /\ last.lc_calls = 0 /\ last.llm_calls = 0
    /\ last.ret = name_matching_cache[LastKey]
    /\ last.ret.status = "success"

\* C16: the Resolution Cache is append-only: every step keeps every key with
\* the value it had, so the set of keys only grows.
C16_AppendOnly ==
    [][\A k \in DOMAIN name_matching_cache :
          /\ k \in DOMAIN name_matching_cache'
          /\ name_matching_cache'[k] = name_matching_cache[k]]_vars

\* the third pair was stored and the two stored before it are still there,
\* after the topology snapshot had expired
C16_Witness ==
    /\ Called /\ last.stored /\ now = 300
    /\ Cardinality(DOMAIN name_matching_cache) = 3
    /\ name_matching_cache[LastKey] = last.ret

\* C17: different input pairs are never keyed to the same entry: when the
\* Resolution Cache holds the one entry the previous call stored, a call
\* with a different pair is not answered from it.
C17_OneEntryPerPair ==
    [][(/\ ResolveStep /\ Called /\ last.stored
        /\ Cardinality(DOMAIN name_matching_cache) = 1
        /\ last'.query # last.query)
         => (~last'.hit /\ NextKey # LastKey)]_vars

\* C19: find_matching_names and every query tool return a result value for
\* every gateway fault and every matcher fault or output: the resolver's
\* result has status success or error, the tool's result has a status, and
\* no exception leaves the tool.
C19_AlwaysStructured ==
    tool.name # "none"
    => /\ ~tool.escaped
       /\ tool.status \in {"success", "error", "not_found", "report"}
       /\ tool.raised => tool.status = "error"
       /\ Called /\ last.ret.status \in {"success", "error"}
       /\ tool.matches = last.ret

\* the resolver raised a KeyError inside its own except branch and returned
\* status error, and a service tool returned status error on that
C19_Witness ==
    /\ tool.name \in ServiceTools
    /\ last.fell_back /\ last.ret = ErrorResult("resolver")
    /\ tool.status = "error" /\ ~tool.escaped

\* C20: a tool whose resolution lacks a name it needs (cluster_name, and
\* service_name for the service tools, null or missing, error results
\* included) returns status error without a gateway call of its own; a
\* tool that called the gateway had resolved the names it needs first.
C20_NoGatewayWithoutNames ==
    tool.name # "none"
    => /\ tool.matches = last.ret
       /\ (IsNull(tool.matches.cluster_name)
            \/ (tool.name \in ServiceTools /\ IsNull(tool.matches.service_name)))
          => (tool.status = "error" /\ ~tool.gateway_called)
       /\ tool.gateway_called
          => /\ ~IsNull(tool.matches.cluster_name)
             /\ tool.name \in ServiceTools => ~IsNull(tool.matches.service_name)

\* a service tool whose resolution named a cluster but no service
C20_Witness ==
    /\ tool.name \in ServiceTools
    /\ last.ret.status = "success"
    /\ tool.matches.cluster_name = PyStr(n_ab)
    /\ IsNull(tool.matches.service_name)
    /\ tool.status = "error" /\ ~tool.gateway_called

\* a (snapshot, timestamp) pair is the initial one or the complete snapshot
\* of one completed refresh together with the time of that refresh
PairOfOneRefresh(cache) ==
    \/ cache.data.isNone /\ cache.timestamp = NoTime
    \/ \E r \in refreshes :
         /\ Complete(r.listing, cache.data)
         /\ cache.timestamp = r.time

\* C18: with calls of find_matching_names in flight together, the topology
\* cache always holds the initial pair or the complete snapshot of one refresh
\* with the capture time of that refresh, and the snapshot a call in flight
\* works on is the complete snapshot of one refresh.
C18_AtomicRefresh ==
    /\ PairOfOneRefresh(clusters_services_cache)
    /\ \A t \in DOMAIN tasks :
         tasks[t].pc \in {"await1", "await2"}
           => \E r \in refreshes : Complete(r.listing, tasks[t].data)

\* two calls in flight, each after a refresh of its own: the first holds the
\* snapshot of 0 s, the cache holds the different snapshot of 300 s
C18_Witness ==
    /\ DOMAIN tasks = Tasks
    /\ \A t \in Tasks : tasks[t].pc \in {"await1", "await2"}
    /\ tasks[1].data # tasks[2].data
    /\ Cardinality(refreshes) = 2
    /\ clusters_services_cache.timestamp = 300
    /\ clusters_services_cache.data = tasks[2].data

\* the collaborators of main() all work
CliEnvOk ==
    cli.construct = "ok" /\ cli.anyio_run = "ok" /\ cli.run_mcp_blocking = "ok"

\* C21: main() given only --openai-api-key and --region returns 0 after one
\* run of the initialization and one run of the server; given exactly one of
\* --access-key / --secret-access-key and no --region it leaves with exit
\* code 2 and runs neither.
C21_CliExitCodes ==
    cli.done =>
      /\ (/\ cli.openai_api_key = "set" /\ cli.region = "set"
          /\ cli.access_key = "absent" /\ cli.secret_access_key = "absent"
          /\ CliEnvOk)
         => /\ cli.exit = "return" /\ cli.code = 0
            /\ cli.init_runs = 1 /\ cli.server_runs = 1
      /\ (/\ cli.openai_api_key = "set" /\ cli.region = "absent"
          /\ (cli.access_key = "absent") # (cli.secret_access_key = "absent"))
         => /\ cli.exit = "SystemExit" /\ cli.code = 2
            /\ cli.init_runs = 0 /\ cli.server_runs = 0

\* a snapshot exists and is younger than 300 s
UsableSnapshot ==
    /\ ~clusters_services_cache.data.isNone
    /\ clusters_services_cache.timestamp # NoTime
    /\ now - clusters_services_cache.timestamp < 300

\* C22: a call that reaches the topology is served from the cached snapshot
\* without a gateway call if and only if a snapshot exists and is younger
\* than 300 s; otherwise it gets an error or the complete snapshot built
\* from the listing of this call alone, never the old one or a mixture.
C22_UsableIff ==
    [][(ResolveStep /\ ~last'.hit)
         => /\ (last'.lc_calls = 0) <=> UsableSnapshot
            /\ UsableSnapshot
                 => /\ ~last'.topo_error
                    /\ clusters_services_cache' = clusters_services_cache
                    /\ last'.map = ClusterServiceMap(clusters_services_cache.data.clusters, <<>>)
            /\ ~UsableSnapshot
                 => \/ last'.topo_error
                    \/ /\ Complete(last'.listing, clusters_services_cache'.data)
                       /\ clusters_services_cache'.timestamp = now
                       /\ last'.map = ClusterServiceMap(clusters_services_cache'.data.clusters, <<>>)]_vars

\* a miss at 300 s, with results stored from a snapshot of 0 s, was not
\* served from that snapshot: the topology was refreshed
C22_Witness ==
    /\ Matched /\ now = 300 /\ last.lc_calls = 1
    /\ clusters_services_cache.timestamp = 300
    /\ \E k \in DOMAIN name_matching_cache : k # LastKey

\* the services of cluster c in the map, the empty list for any other name
ScopeOf(map, c) ==
    IF \E i \in 1..Len(map) : PyStr(map[i][1]) = c
    THEN map[CHOOSE i \in 1..Len(map) : PyStr(map[i][1]) = c][2]
    ELSE <<>>

\* C23: a call issues a second matcher request if and only if the first
\* reply, after the repair, names a cluster and no service while a service
\* was asked for; the request is scoped to the service list of that cluster,
\* the service it returns is the service of the result, and no call issues
\* more than two requests.
C23_SecondRequest ==
    Matched =>
      /\ last.llm_calls \in {1, 2}
      /\ (last.llm_calls = 2)
           <=> (/\ Reply1.kind = "obj"
                /\ ~IsNull(Reply1.cluster_name)
                /\ IsNull(Reply1.service_name)
                /\ ~IsNull(last.query.service_name))
      /\ last.llm_calls = 2
           => /\ last.scope = ScopeOf(last.map, Reply1.cluster_name)
              /\ Reply2.kind = "obj"
                   => /\ last.ret.service_name = Reply2.service_name
                      /\ last.ret.cluster_name = Reply1.cluster_name
                      /\ last.stored

\* the first reply named cluster ab only, the second request was scoped to
\* the two services of ab and its answer is the service of the result
C23_Witness ==
    /\ Matched /\ last.llm_calls = 2
    /\ Reply1.cluster_name = PyStr(n_ab) /\ IsNull(Reply1.service_name)
    /\ last.scope = <<n_a, n_b>>
    /\ Reply2.kind = "obj" /\ Reply2.service_name = PyStr(n_a)
    /\ last.ret = Response("success", PyStr(n_ab), PyStr(n_a))

\* every service identifier of the topology, cluster by cluster
RECURSIVE AllServices(_)
AllServices(map) ==
    IF map = <<>> THEN <<>> ELSE Head(map)[2] \o AllServices(Tail(map))

\* C24: on the fallback path the service of the result is the heuristic
\* matcher's best match of the service query among the service identifiers
\* of the topology, whether or not a cluster was supplied or matched, and so
\* is null or a service identifier.
C24_FallbackService ==
    (Matched /\ last.fell_back /\ last.ret.status = "success")
    => /\ last.ret.service_name
             = RefBestMatch(last.query.service_name, AllServices(last.map))
       /\ IsNull(last.ret.service_name)
            \/ (last.ret.service_name.t = "str"
                /\ InList(last.ret.service_name.v, AllServices(last.map)))

\* C25: the heuristic matcher is a function of its two arguments (its result
\* is the one the rule list gives for them) and a call leaves the caller's
\* candidates list, the topology cache and the Resolution Cache as they were.
C25_MatcherIsPure ==
    bm.done
    => /\ bm.after = bm.candidates
       /\ bm.result = RefBestMatch(bm.target, bm.candidates)
       /\ name_matching_cache = <<>>
       /\ clusters_services_cache = [data |-> NoData, timestamp |-> NoTime]

\* the matcher sorted its partial matches, the longer candidate came first
\* in the caller's list and still does
C25_Witness ==
    /\ bm.done /\ Len(bm.candidates) = 2
    /\ Len(bm.candidates[1]) > Len(bm.candidates[2])
    /\ bm.result = PyStr(bm.candidates[2])
    /\ RefExact(Lower(bm.target.v), bm.candidates) = {}
    /\ RefCandidates(Lower(bm.target.v), bm.candidates) = {1, 2}
    /\ bm.after = bm.candidates

\* the pages the pagination loop has still to fetch
PagesLeft(w) ==
    SumPages(w.listing, w.cluster_names)
    - (IF w.next_token = 0 THEN 0 ELSE w.next_token - 1)

\* the order of the upstream calls in the body of find_matching_names
Rank(pc) ==
    CASE pc = "list_clusters" -> 1 [] pc = "list_services" -> 2
      [] pc = "first_request" -> 3 [] pc = "second_request" -> 4
      [] OTHER -> 5

\* C26: a resolve call that is waiting for an upstream call eventually
\* returns a result, given that every upstream call returns or fails and
\* every listing ends with a page without token; and the only place where the
\* call asks the same kind of upstream call again is the pagination loop,
\* where every repetition consumes one page of the listing.
C26_Terminates ==
    /\ (InFlight ~> (walk.pc = "returned" /\ walk.ret.status \in {"success", "fallback", "error"}))
    /\ [][InFlight =>
            \/ Rank(walk'.pc) > Rank(walk.pc)
            \/ /\ walk.pc = "list_services" /\ walk'.pc = "list_services"
               /\ PagesLeft(walk') < PagesLeft(walk)]_vars

\* a call returned after list_clusters, the three pages of Listing1 and two
\* matcher requests
C26_Witness ==
    /\ walk.pc = "returned" /\ walk.calls = 1 /\ walk.steps = 6
    /\ walk.listing = Listing1 /\ walk.llm1 # NoLlm
    /\ walk.ret.status = "success"

\* C27: when a call returned null names because the completion failed, the
\* next call with the same pair asks the matcher again (so that it can
\* return the real match once the matcher has recovered) and is not answered
\* from the Resolution Cache.
C27_NullNotPermanent ==
    [][(/\ Matched /\ last.llm1.out.kind = "raise"
        /\ last.ret.status # "error"
        /\ IsNull(last.ret.cluster_name) /\ IsNull(last.ret.service_name)
        /\ ResolveStep /\ NextKey = LastKey)
         => ~last'.hit /\ last'.llm_calls >= 1]_vars

\* a result whose names are null or identifiers of the topology in map
NamesOfTopology(r, map) ==
    /\ \/ IsNull(r.cluster_name)
       \/ r.cluster_name.t = "str" /\ InList(r.cluster_name.v, DictKeys(map))
    /\ \/ IsNull(r.service_name)
       \/ /\ r.service_name.t = "str"
          /\ \E i \in 1..Len(map) : InList(r.service_name.v, map[i][2])

\* C28: every non-error result of a call that consulted the matcher, and the
\* Resolution Cache entry written for it, has a cluster_name that is null or
\* a cluster identifier of the topology used and a service_name that is null
\* or a service identifier of that topology, whatever the matcher answered.
C28_NamesOfTopology ==
    (Matched /\ last.ret.status # "error")
    => /\ NamesOfTopology(last.ret, last.map)
       /\ LastKey \in DOMAIN name_matching_cache
            => NamesOfTopology(name_matching_cache[LastKey], last.map)

\* the sum of the service_count fields of cluster entries
RECURSIVE SumCounts(_)
SumCounts(clusters) ==
    IF clusters = <<>> THEN 0
    ELSE Head(clusters).service_count + SumCounts(Tail(clusters))

\* C29: a stored snapshot is internally consistent: total_clusters is the
\* number of its cluster entries, every entry's service_count is the length
\* of its services list, and total_services is the sum of the service_count
\* fields.
C29_SnapshotConsistent ==
    ~clusters_services_cache.data.isNone
    => /\ clusters_services_cache.data.total_clusters
            = Len(clusters_services_cache.data.clusters)
       /\ \A i \in 1..Len(clusters_services_cache.data.clusters) :
             clusters_services_cache.data.clusters[i].service_count
               = Len(clusters_services_cache.data.clusters[i].services)
       /\ clusters_services_cache.data.total_services
            = SumCounts(clusters_services_cache.data.clusters)

\* healthy, stated on what the gateway reported: the counts agree, the first
\* PRIMARY deployment is COMPLETED or IN_PROGRESS, and every target of every
\* target group is healthy
RefHealthy(h) ==
    /\ h.running_count = h.desired_count
    /\ \E i \in 1..Len(h.deployments) :
          /\ h.deployments[i].status = "PRIMARY"
          /\ \A j \in 1..(i - 1) : h.deployments[j].status # "PRIMARY"
          /\ h.deployments[i].rolloutState \in {"COMPLETED", "IN_PROGRESS"}
    /\ h.loadBalancers.present
         => \A i \in 1..Len(h.loadBalancers.lbs) :
              h.loadBalancers.lbs[i].hasTargetGroup
                => \A t \in 1..Len(h.loadBalancers.lbs[i].targets) :
                     h.loadBalancers.lbs[i].targets[t] = "healthy"

\* C30: check_ecs_service_status calls list_tasks and describe_tasks only for
\* a service that is not healthy (and lists the tasks of every such service
\* it reports on); for a healthy service it issues neither call and reports
\* unhealthy_tasks and target_health as null.
C30_TasksOnlyWhenUnhealthy ==
    health.done
    => /\ health.list_tasks_calls > 0 => ~RefHealthy(health)
       /\ health.describe_tasks_calls > 0
            => health.list_tasks_calls > 0 /\ health.tasks # <<>>
       /\ (health.outcome = "report" /\ ~RefHealthy(health))
            => health.list_tasks_calls = 1
       /\ (health.outcome = "report" /\ RefHealthy(health))
            => /\ health.list_tasks_calls = 0 /\ health.describe_tasks_calls = 0
               /\ health.unhealthy_tasks = PyNone
               /\ health.target_health = PyNone

\* a healthy service behind a target group was reported without a task call,
\* although it has running tasks with a stopped container
C30_Witness ==
    /\ health.done /\ health.outcome = "report" /\ RefHealthy(health)
    /\ Len(health.loadBalancers.lbs) = 2
    /\ health.describe_target_health_calls = 1
    /\ health.tasks # <<>> /\ UnhealthyTasks(health.tasks) # <<>>
    /\ health.list_tasks_calls = 0 /\ health.unhealthy_tasks = PyNone

====
